---- MODULE Spec2Model ----
(***************************************************************************)
(* InstallShield cabinet reader (common/compression/installshield_cab.cpp) *)
(* as a state machine: a cabinet family on disk, one reader object, and    *)
(* the reader's operations open(), hasFile() and                           *)
(* createReadStreamForMember().                                            *)
(***************************************************************************)
EXTENDS Integers, Sequences, FiniteSets, TLC

(* ------------------------------ bounds --------------------------------- *)
\* most volumes (<base>i.cab) of a family
MaxVolumes == 2
\* most records of a file table
MaxFiles == 2
\* largest byte count of a size field
MaxSize == 2
\* largest value an unchecked read past the end of a stream yields
MaxGarbage == 1
\* longest input buffer handed to the inflater
MaxSrcLen == 4
\* largest output buffer handed to the inflater
MaxDstLen == 2

(* ------------------------- program constants --------------------------- *)
kSplit == 1
kObfuscated == 2
kCompressed == 4
kInvalid == 8
\* 0x28635349, "ISc("
SIGNATURE == 677598025
\* smallest and largest supported cabinet version
MinVersion == 5
MaxVersion == 13

(* ------------------------------ helpers -------------------------------- *)
\* flags & bit, for a single-bit mask
hasFlag(flags, bit) == (flags \div bit) % 2 = 1

\* flags |= bit
setFlag(flags, bit) == IF hasFlag(flags, bit) THEN flags ELSE flags + bit

\* Path::IgnoreCase_Hash / IgnoreCase_EqualTo: keys are compared folded
lower(s) ==
    CASE s = "A" -> "a"
      [] s = "B" -> "b"
      [] OTHER -> s

\* String::hasSuffix
hasSuffix(s, suf) ==
    /\ Len(s) >= Len(suf)
    /\ SubSeq(s, Len(s) - Len(suf) + 1, Len(s)) = suf

DotCab == <<".", "c", "a", "b">>
DotHdr == <<".", "h", "d", "r">>

\* open(): the base name with ".cab"/".hdr" and the index digit erased
stripBaseName(name) ==
    IF hasSuffix(name, DotCab) \/ hasSuffix(name, DotHdr)
    THEN SubSeq(name, 1, Len(name) - 5)
    ELSE name

\* String::format("%d", i) for the one-digit indices of the model
Digit(i) == <<"0", "1", "2", "3", "4", "5", "6", "7", "8", "9">>[i + 1]

getHeaderName(base) == base \o <<"1">> \o DotHdr
getVolumeName(base, volume) == base \o <<Digit(volume)>> \o DotCab


(* ------------------------- the cabinet on disk ------------------------- *)
\* A file is its header words (32-bit little-endian), then the cabinet
\* descriptor, then the file-table records with their names.  A truncated
\* file lacks a tail of these.  desc is a sequence of length 0 or 1.
ZeroHeader ==
    [version |-> 0, cabDescriptorOffset |-> 0, dataOffset |-> 0,
     firstFileIndex |-> 0, lastFileIndex |-> 0, firstFileOffset |-> 0,
     firstFileSizeUncompressed |-> 0, firstFileSizeCompressed |-> 0,
     lastFileOffset |-> 0, lastFileSizeUncompressed |-> 0,
     lastFileSizeCompressed |-> 0]

\* readVolumeHeader: version out of the magic word
decodeVersion(magicBytes) ==
    LET shift == magicBytes \div 16777216
        v == IF shift = 1 THEN (magicBytes \div 4096) % 16
                          ELSE (magicBytes % 65536) \div 100
    IN  IF v = 0 THEN 5 ELSE v

\* ReadStream::readUint32LE at word k: past the end of the stream the value
\* is whatever the uninitialised local held (g)
readWord(words, k, g) == IF k <= Len(words) THEN words[k] ELSE g

\* readVolumeHeader(volumeStream, inVolumeHeader): init is inVolumeHeader as
\* the caller passed it.  ok is the return value, hdr is inVolumeHeader on
\* return; badSig/badVersion/short record what the call met.
readVolumeHeader(words, init, g) ==
    LET signature == readWord(words, 1, g)
        magicBytes == readWord(words, 2, g)
        version == decodeVersion(magicBytes)
        w(k) == readWord(words, k, g)
    IN  IF signature # SIGNATURE
        THEN [ok |-> FALSE, hdr |-> init, badSig |-> TRUE, badVersion |-> FALSE,
              short |-> Len(words) < 1]
        ELSE IF version < MinVersion \/ version > MaxVersion
        THEN [ok |-> FALSE, hdr |-> [init EXCEPT !.version = version],
              badSig |-> FALSE, badVersion |-> TRUE, short |-> Len(words) < 2]
        ELSE IF version = 5
        THEN [ok |-> TRUE,
              hdr |-> [version |-> version, cabDescriptorOffset |-> w(4),
                       dataOffset |-> w(6),
                       firstFileIndex |-> w(8), lastFileIndex |-> w(9),
                       firstFileOffset |-> w(10),
                       firstFileSizeUncompressed |-> w(11),
                       firstFileSizeCompressed |-> w(12),
                       lastFileOffset |-> w(13),
                       lastFileSizeUncompressed |-> w(14),
                       lastFileSizeCompressed |-> w(15)],
              badSig |-> FALSE, badVersion |-> FALSE, short |-> Len(words) < 15]
        ELSE [ok |-> TRUE,
              hdr |-> [version |-> version, cabDescriptorOffset |-> w(4),
                       dataOffset |-> w(6),
                       firstFileIndex |-> w(8), lastFileIndex |-> w(9),
                       firstFileOffset |-> w(10),
                       firstFileSizeUncompressed |-> w(12),
                       firstFileSizeCompressed |-> w(14),
                       lastFileOffset |-> w(16),
                       lastFileSizeUncompressed |-> w(18),
                       lastFileSizeCompressed |-> w(20)],
              badSig |-> FALSE, badVersion |-> FALSE, short |-> Len(words) < 20]

\* Archive::createReadStreamForMember / File::open of the enclosing file
\* system: the stream of the named file, <<>> when there is none
openByName(fs, name) ==
    IF name = getHeaderName(fs.base) /\ fs.hdr # <<>>
    THEN fs.hdr
    ELSE IF \E i \in 1..Len(fs.vols) : name = getVolumeName(fs.base, i)
    THEN LET i == CHOOSE i \in 1..Len(fs.vols) : name = getVolumeName(fs.base, i)
         IN  <<fs.vols[i]>>
    ELSE <<>>


(* ------------------------------ the reader ----------------------------- *)
VARIABLES
    fs,              \* the cabinet family on disk: base, vols, hdr
    pc,              \* "new", "open" (open() returned true), "failed"
    _version,        \* InstallShieldCabinet::_version
    _map,            \* _map: folded path -> FileEntry
    _baseName,       \* _baseName, a sequence of characters
    _volumeHeaders,  \* _volumeHeaders
    _archive,        \* which backend open() was given
    trace,           \* what the last open() met while it ran
    last             \* the last query and its result

readerVars == <<fs, pc, _version, _map, _baseName, _volumeHeaders, _archive, trace, last>>

EmptyMap == [k \in {} |-> 0]

\* What a read of a record past the end of the stream yields: every integer
\* is the uninitialised local, readString stops at once
garbageRecord(g) ==
    [nameOffset |-> g, name |-> "", flags |-> g, uncompressedSize |-> g,
     compressedSize |-> g, offset |-> g, volume |-> g]

\* The j-th (1-based) file record of the carrier and whether reading it ran
\* off the end of the stream
readRecord(file, j, g) ==
    IF j <= Len(file.recs)
    THEN [rec |-> file.recs[j], short |-> FALSE]
    ELSE [rec |-> garbageRecord(g), short |-> TRUE]

\* fileTableOffset .. fileCount of the cabinet descriptor
readDescriptor(file, g) ==
    IF file.desc # <<>>
    THEN [directoryCount |-> file.desc[1].directoryCount,
          fileCount |-> file.desc[1].fileCount, short |-> FALSE]
    ELSE [directoryCount |-> g, fileCount |-> g, short |-> TRUE]

\* "Make sure the entry has a name and data inside the cab"
skipRecord(rec) ==
    rec.nameOffset = 0 \/ rec.offset = 0 \/ hasFlag(rec.flags, kInvalid)

\* the comparison turned around: the highest volume is kept
insertWins_highest(map, key, entry) ==
    key \notin DOMAIN map \/ map[key].volume < entry.volume

\* "We keep the one with the lowest volume ID"
insertWins(map, key, entry) ==
    key \notin DOMAIN map \/ map[key].volume > entry.volume

mapInsert(map, key, entry) ==
    IF insertWins(map, key, entry)
    THEN [k \in DOMAIN map \cup {key} |-> IF k = key THEN entry ELSE map[k]]
    ELSE map

newEntry(rec) ==
    [uncompressedSize |-> rec.uncompressedSize,
     compressedSize |-> rec.compressedSize,
     offset |-> rec.offset, flags |-> rec.flags, volume |-> rec.volume]

\* v5: the first volume header, from index i on, whose file range holds
\* fileIndex; 0 when there is none
RECURSIVE owningVolume(_, _, _)
owningVolume(volumeHeaders, fileIndex, i) ==
    IF i >= Len(volumeHeaders) + 1
    THEN 0
    ELSE IF /\ fileIndex >= volumeHeaders[i].firstFileIndex
            /\ fileIndex <= volumeHeaders[i].lastFileIndex
    THEN i
    ELSE owningVolume(volumeHeaders, fileIndex, i + 1)

\* v5: "Check if the file is split across volumes"
isSplit(entry, fileIndex, volumeHeader, headerHeader) ==
    /\ fileIndex = volumeHeader.lastFileIndex
    /\ entry.compressedSize # headerHeader.lastFileSizeCompressed
    /\ headerHeader.lastFileSizeCompressed # 0

\* v5: the entry with its volume, and its Split flag, resolved
resolveVolume(entry, fileIndex, volumeHeaders, headerHeader) ==
    LET i == owningVolume(volumeHeaders, fileIndex, 1)
    IN  IF i = 0
        THEN entry
        ELSE [entry EXCEPT
                !.volume = i,
                !.flags = IF isSplit(entry, fileIndex, volumeHeaders[i], headerHeader)
                          THEN setFlag(entry.flags, kSplit)
                          ELSE entry.flags]


\* close() that forgets the map
close_keepsMap(rd) ==
    [rd EXCEPT !.baseName = <<>>, !.volumeHeaders = <<>>, !.version = 0]

\* InstallShieldCabinet::close on the reader's fields
close(rd) ==
    [rd EXCEPT !.baseName = <<>>, !.map = EmptyMap,
               !.volumeHeaders = <<>>, !.version = 0]

\* What open() notes of a record it did not skip
seenRecord(rec, fileName, fileIndex, entry, short) ==
    [key |-> lower(fileName), name |-> fileName, nameOffset |-> rec.nameOffset,
     fileIndex |-> fileIndex, recFlags |-> rec.flags, entry |-> entry,
     short |-> short]

\* open(): a record that passed the skip rule goes into the map
insertRecord(acc, rec, fileName, fileIndex, entry, short) ==
    [acc EXCEPT
       !.map = mapInsert(acc.map, lower(fileName), entry),
       !.seen = Append(acc.seen, seenRecord(rec, fileName, fileIndex, entry, short))]

\* open(), version >= 6: the body of the loop for the record read as r
stepV6(acc, r) ==
    IF skipRecord(r.rec)
    THEN [acc EXCEPT !.short = @ \/ r.short]
    ELSE insertRecord([acc EXCEPT !.short = @ \/ r.short], r.rec, r.rec.name, 0,
                      newEntry(r.rec), r.short)

\* open(), version >= 6: records j .. fileCount-1 (0-based)
RECURSIVE catalogV6(_, _, _, _, _)
catalogV6(file, fileCount, j, acc, g) ==
    IF j >= fileCount
    THEN acc
    ELSE catalogV6(file, fileCount, j + 1, stepV6(acc, readRecord(file, j + 1, g)), g)

\* open(), version 5: the body of the loop for the record read as r, whose
\* entry, volume resolved, is entry
stepV5(acc, r, entry) ==
    IF skipRecord(r.rec)
    THEN [acc EXCEPT !.short = @ \/ r.short]
    ELSE IF entry.volume = 0
    THEN [acc EXCEPT !.short = @ \/ r.short, !.failed = TRUE]
    ELSE insertRecord([acc EXCEPT !.short = @ \/ r.short, !.fileIndex = @ + 1],
                      r.rec, r.rec.name, acc.fileIndex, entry, r.short)

\* the entry open() builds of a version 5 record
entryV5(rec, fileIndex, volumeHeaders, headerHeader) ==
    resolveVolume([newEntry(rec) EXCEPT !.volume = 0], fileIndex, volumeHeaders, headerHeader)

\* open(), version 5: records j .. directoryCount+fileCount-1 (0-based) of
\* the offsets table, whose first directoryCount entries are directories
RECURSIVE catalogV5(_, _, _, _, _, _)
catalogV5(file, last_j, j, ctx, acc, g) ==
    IF j >= last_j \/ acc.failed
    THEN acc
    ELSE catalogV5(file, last_j, j + 1, ctx,
           stepV5(acc, readRecord(file, j - ctx.directoryCount + 1, g),
                  entryV5(readRecord(file, j - ctx.directoryCount + 1, g).rec,
                          acc.fileIndex, ctx.volumeHeaders, ctx.headerHeader)),
           g)

\* open(): the volumes base1.cab, base2.cab, .. that open, counted from i
RECURSIVE countVolumes(_, _, _)
countVolumes(files, base, i) ==
    IF i > 9 \/ openByName(files, getVolumeName(base, i)) = <<>>
    THEN i - 1
    ELSE countVolumes(files, base, i + 1)

NoTrace ==
    [ran |-> FALSE, badSig |-> FALSE, badVersion |-> FALSE, short |-> FALSE,
     failure |-> "none", inserted |-> 0, seen |-> <<>>,
     headerHeader |-> ZeroHeader]

\* open(): the return, after close() and false or with true
openReturn(rd, tr, acc) ==
    IF acc.failed
    THEN [ret |-> FALSE, rd |-> close([rd EXCEPT !.map = acc.map]),
          trace |-> [tr EXCEPT !.short = acc.short, !.seen = acc.seen,
                               !.inserted = Len(acc.seen), !.failure = "novolume"]]
    ELSE [ret |-> TRUE, rd |-> [rd EXCEPT !.map = acc.map],
          trace |-> [tr EXCEPT !.short = acc.short, !.seen = acc.seen,
                               !.inserted = Len(acc.seen)]]

\* open(): the file table of the carrier, by the layout of the version
openCatalog(file, rd, tr, headerHeader, d, g) ==
    openReturn(rd, tr,
      IF rd.version >= 6
      THEN catalogV6(file, d.fileCount, 0,
             [map |-> EmptyMap, fileIndex |-> 0, seen |-> <<>>,
              short |-> tr.short \/ d.short, failed |-> FALSE], g)
      ELSE catalogV5(file, d.fileCount + d.directoryCount, d.directoryCount,
             [directoryCount |-> d.directoryCount,
              volumeHeaders |-> rd.volumeHeaders, headerHeader |-> headerHeader],
             [map |-> EmptyMap, fileIndex |-> 0, seen |-> <<>>,
              short |-> tr.short \/ d.short, failed |-> FALSE], g))

\* open(): the carrier's own header, read as hh
openHeader(file, rd, tr, hh, g) ==
    IF ~hh.ok
    THEN [ret |-> FALSE, rd |-> close(rd),
          trace |-> [tr EXCEPT !.badSig = @ \/ (hh.badSig /\ ~hh.short),
                               !.badVersion = @ \/ (hh.badVersion /\ ~hh.short),
                               !.short = @ \/ hh.short,
                               !.headerHeader = hh.hdr,
                               !.failure = "header"]]
    ELSE openCatalog(file, [rd EXCEPT !.version = hh.hdr.version],
                     [tr EXCEPT !.short = @ \/ hh.short, !.headerHeader = hh.hdr],
                     hh.hdr, readDescriptor(file, g), g)

\* open(): the .hdr, or else volume 1, carries the file list
openCarrier(rd, tr, file, g) ==
    IF file = <<>>
    THEN [ret |-> FALSE, rd |-> close(rd), trace |-> [tr EXCEPT !.failure = "nofile"]]
    ELSE openHeader(file[1], rd, tr, readVolumeHeader(file[1].words, ZeroHeader, g), g)

\* open(): every volume's header read, res[i] is what volume i gave
openVolumes(files, base, backend, res, g) ==
    openCarrier(
      [version |-> 0, map |-> EmptyMap, baseName |-> base,
       volumeHeaders |-> [i \in DOMAIN res |-> res[i].hdr], archive |-> backend],
      [NoTrace EXCEPT
         !.ran = TRUE,
         !.badSig = \E i \in DOMAIN res : res[i].badSig /\ ~res[i].short,
         !.badVersion = \E i \in DOMAIN res : res[i].badVersion /\ ~res[i].short,
         !.short = \E i \in DOMAIN res : res[i].short],
      IF openByName(files, getHeaderName(base)) # <<>>
      THEN openByName(files, getHeaderName(base))
      ELSE openByName(files, getVolumeName(base, 1)),
      g)

\* open(): the headers of the volumes base1.cab .. that open
volumeResults(files, base, g) ==
    [i \in 1..countVolumes(files, base, 1) |->
       readVolumeHeader(openByName(files, getVolumeName(base, i))[1].words, ZeroHeader, g)]

\* InstallShieldCabinet::open(baseName, archive, node) on a fresh reader.
\* backend is "archive" or "node"; g is what unchecked short reads yield.
\* ret is the return value, rd the reader's fields on return.
open(files, name, backend, g) ==
    openVolumes(files, stripBaseName(name), backend,
                volumeResults(files, stripBaseName(name), g), g)

(* ------------------------- extracting a member ------------------------- *)
\* the obfuscation test on the wrong flag bit
isObfuscated_wrongBit(entry) == hasFlag(entry.flags, kInvalid)

\* createReadStreamForMember: "Cannot extract obfuscated file"
isObfuscated(entry) == hasFlag(entry.flags, kObfuscated)

\* hasFile
hasFile(map, path) == lower(path) \in DOMAIN map

\* inflateZlibInstallShield(dst, dstLen, src, srcLen): decodes is what the
\* headerless-zlib decoder makes of the payload
inflateZlibInstallShield(dstLen, srcLen, decodes) ==
    IF dstLen = 0 \/ srcLen = 0 THEN FALSE ELSE decodes

\* createReadStreamForMember, split file: the loop over the next volumes.
\* failed: a volume did not open.  opens counts the volumes opened or tried.
RECURSIVE splitLoop(_, _, _, _, _, _)
splitLoop(files, rd, entry, volume, bytesRead, opens) ==
    IF ~(bytesRead < entry.compressedSize)
    THEN [failed |-> FALSE, bytesRead |-> bytesRead, opens |-> opens]
    ELSE LET next == volume + 1
             stream == openByName(files, getVolumeName(rd.baseName, next))
         IN  IF stream = <<>>
             THEN [failed |-> TRUE, bytesRead |-> bytesRead, opens |-> opens + 1]
             ELSE splitLoop(files, rd, entry, next,
                    bytesRead + rd.volumeHeaders[next].firstFileSizeCompressed,
                    opens + 1)

NoEntry == [uncompressedSize |-> 0, compressedSize |-> 0, offset |-> 0,
            flags |-> 0, volume |-> 0]

NoResult ==
    [op |-> "none", path |-> "", found |-> FALSE, result |-> "absent",
     length |-> 0, opens |-> 0, entry |-> NoEntry, volumeOpened |-> FALSE,
     split |-> FALSE, splitFailed |-> FALSE, bytesRead |-> 0]

\* createReadStreamForMember(path): result is "absent" (nullptr) or
\* "stream", of the given length
createReadStreamForMember(files, rd, path, decodes) ==
    LET r0 == [NoResult EXCEPT !.op = "stream", !.path = path]
    IN  IF ~hasFile(rd.map, path)
        THEN r0
        ELSE
        LET entry == rd.map[lower(path)]
            r1 == [r0 EXCEPT !.found = TRUE, !.entry = entry]
        IN  IF isObfuscated(entry)
            THEN r1
            ELSE
            LET stream == openByName(files, getVolumeName(rd.baseName, entry.volume))
                r2 == [r1 EXCEPT !.opens = 1]
            IN  IF stream = <<>>
                THEN r2
                ELSE
                LET split == hasFlag(entry.flags, kSplit)
                    sl == IF split
                          THEN splitLoop(files, rd, entry, entry.volume,
                                 rd.volumeHeaders[entry.volume].lastFileSizeCompressed, 1)
                          ELSE [failed |-> FALSE, bytesRead |-> 0, opens |-> 1]
                    r3 == [r2 EXCEPT !.volumeOpened = TRUE, !.split = split,
                                     !.splitFailed = sl.failed,
                                     !.bytesRead = sl.bytesRead,
                                     !.opens = sl.opens]
                    stm == [r3 EXCEPT !.result = "stream",
                                      !.length = entry.uncompressedSize]
                IN  IF sl.failed
                    THEN r3
                    ELSE IF ~hasFlag(entry.flags, kCompressed)
                    THEN stm
                    ELSE IF entry.compressedSize # 0
                            /\ ~inflateZlibInstallShield(entry.uncompressedSize,
                                                         entry.compressedSize, decodes)
                    THEN r3
                    ELSE stm

\* listMembers: the number of members
listMembers(map) == Cardinality(DOMAIN map)


(* ------------------------ the cabinets explored ------------------------ *)
\* magic words: 0x0100v000 carries version v in bits 12..15; a word whose
\* top byte is not 1 carries 100 * version in its low 16 bits
shiftedMagic(v) == 16777216 + v * 4096
Magic5 == shiftedMagic(5)
Magic6 == shiftedMagic(6)
BadMagics == {shiftedMagic(4), 1400}
BadSignature == SIGNATURE + 1

Stem == <<"d", "a", "t", "a">>
OpenNames == {Stem \o <<"1">> \o DotCab, Stem \o <<"1">> \o DotHdr, Stem \o DotCab}
Backends == {"archive", "node"}
Paths == {"a", "A", "b", ""}
Garbage == 0..MaxGarbage

\* the header words of a file laid out for the version its magic decodes to
headerWords(sig, magic, f) ==
    IF decodeVersion(magic) = 5
    THEN <<sig, magic, 0, 0, 0, 0, 0, f.ffi, f.lfi, 0, 0, f.ffsc, 0, 0, f.lfsc>>
    ELSE <<sig, magic, 0, 0, 0, 0, 0, f.ffi, f.lfi, 0, 0, 0, 0, f.ffsc,
           0, 0, 0, 0, 0, f.lfsc, 0>>

mkFile(sig, magic, f, table) ==
    [words |-> headerWords(sig, magic, f),
     desc |-> <<[directoryCount |-> 1, fileCount |-> Len(table)]>>,
     recs |-> table]

\* the file cut after its first n units (header words, descriptor, records)
truncate(file, n) ==
    LET w == Len(file.words)
    IN  [words |-> SubSeq(file.words, 1, IF n < w THEN n ELSE w),
         desc |-> IF n > w THEN file.desc ELSE <<>>,
         recs |-> IF n > w + 1
                  THEN SubSeq(file.recs, 1,
                         IF n - w - 1 < Len(file.recs) THEN n - w - 1 ELSE Len(file.recs))
                  ELSE <<>>]

fileUnits(file) == Len(file.words) + 1 + Len(file.recs)

\* a family of nvol volumes, with a .hdr or not; the carrier holds the table
\* sigs, magics and ranges give each volume's header; hdr is <<>> or the
\* <<signature, magic, range>> of the .hdr
mkFamily(nvol, sigs, magics, ranges, hdr, table) ==
    [base |-> Stem,
     vols |-> [i \in 1..nvol |->
                 mkFile(sigs[i], magics[i], ranges[i],
                        IF hdr # <<>> \/ i > 1 THEN <<>> ELSE table)],
     hdr |-> IF hdr # <<>> THEN <<mkFile(hdr[1], hdr[2], hdr[3], table)>> ELSE <<>>]

plainRecord(name, volume) ==
    [nameOffset |-> 1, name |-> name, flags |-> 0, uncompressedSize |-> 1,
     compressedSize |-> 1, offset |-> 1, volume |-> volume]

\* volume i holds file i-1 alone, no partial segments
ownRange(i) == [ffi |-> i - 1, lfi |-> i - 1, ffsc |-> 0, lfsc |-> 0]

TwoFiles == <<plainRecord("a", 1), plainRecord("b", 1)>>

HeadKinds ==
    {<<SIGNATURE, m>> : m \in {Magic5, Magic6, 0} \cup BadMagics}
        \cup {<<BadSignature, Magic5>>}

\* fs is a family whose headers are good or bad, file table fixed
HeaderFamily ==
    \E nvol \in 0..MaxVolumes :
      \E vk \in [1..nvol -> HeadKinds],
         hk \in {<<>>} \cup {<<k[1], k[2], ownRange(1)>> : k \in HeadKinds} :
        fs = mkFamily(nvol, [i \in 1..nvol |-> vk[i][1]], [i \in 1..nvol |-> vk[i][2]],
                      [i \in 1..nvol |-> ownRange(i)], hk, TwoFiles)

\* a well-formed family of nvol volumes, all of magic m
wholeFamily(nvol, hasHdr, m) ==
    mkFamily(nvol, [i \in 1..nvol |-> SIGNATURE], [i \in 1..nvol |-> m],
             [i \in 1..nvol |-> ownRange(i)],
             IF hasHdr THEN <<SIGNATURE, m, ownRange(1)>> ELSE <<>>, TwoFiles)

\* fs is a well-formed family with one file cut short
TruncatedFamily ==
    \E nvol \in 1..MaxVolumes, hasHdr \in BOOLEAN, m \in {Magic5, Magic6} :
      \/ \E i \in 1..nvol :
           \E n \in 0..(fileUnits(wholeFamily(nvol, hasHdr, m).vols[i]) - 1) :
             fs = [wholeFamily(nvol, hasHdr, m) EXCEPT !.vols[i] = truncate(@, n)]
      \/ /\ hasHdr
         /\ \E n \in 0..(fileUnits(wholeFamily(nvol, hasHdr, m).hdr[1]) - 1) :
              fs = [wholeFamily(nvol, hasHdr, m) EXCEPT !.hdr[1] = truncate(@, n)]

\* file-table records of every kind the skip rule and the duplicate rule
\* tell apart: names that differ in case only, an empty name string, a
\* record without a name, without data, or marked invalid
CatalogRecords ==
    {plainRecord(nm, v) : nm \in {"a", "A", "b"}, v \in 1..MaxVolumes}
    \cup {plainRecord("", 1),
          [plainRecord("", 1) EXCEPT !.nameOffset = 0],
          [plainRecord("a", 1) EXCEPT !.offset = 0],
          [plainRecord("a", 1) EXCEPT !.flags = kInvalid]}

Tables(records) == UNION {[1..n -> records] : n \in 0..MaxFiles}

\* volume i holds file i-1 (ascending) or file MaxVolumes-i (descending)
layoutRange(asc, i) ==
    IF asc THEN ownRange(i)
    ELSE [ffi |-> MaxVolumes - i, lfi |-> MaxVolumes - i, ffsc |-> 0, lfsc |-> 0]

\* <<magic, ascending, with a .hdr>> of the well-formed families
CatalogLayouts ==
    {<<Magic5, TRUE, FALSE>>, <<Magic5, FALSE, TRUE>>, <<1300, TRUE, FALSE>>}

\* fs is a well-formed family, file table of every shape
CatalogFamily ==
    \E l \in CatalogLayouts, table \in Tables(CatalogRecords) :
      fs = mkFamily(MaxVolumes, [i \in 1..MaxVolumes |-> SIGNATURE],
                    [i \in 1..MaxVolumes |-> l[1]],
                    [i \in 1..MaxVolumes |-> layoutRange(l[2], i)],
                    IF l[3] THEN <<SIGNATURE, l[1], layoutRange(l[2], 1)>> ELSE <<>>,
                    table)

\* a single member of every flag set, size and starting volume
FlagRecords ==
    { [nameOffset |-> 1, name |-> "a", flags |-> fl, uncompressedSize |-> us,
       compressedSize |-> cs, offset |-> 1, volume |-> v]
      : fl \in 0..15, us \in 0..MaxSize, cs \in 0..MaxSize, v \in 0..(MaxVolumes + 1) }

\* volume i holds file i-1, its last segment and first segment one byte each
segmentRange(i) == [ffi |-> i - 1, lfi |-> i - 1, ffsc |-> 1, lfsc |-> 1]

\* fs is a family without .hdr whose one member is any of FlagRecords
FlagFamily ==
    \E m \in {Magic5, Magic6}, r \in FlagRecords :
      fs = mkFamily(MaxVolumes, [i \in 1..MaxVolumes |-> SIGNATURE],
                    [i \in 1..MaxVolumes |-> m],
                    [i \in 1..MaxVolumes |-> segmentRange(i)], <<>>, <<r>>)

(* ----------------- the state of inflateZlibInstallShield ---------------- *)
VARIABLES
    zpc,             \* where a call stands: "idle", "entry", "loop", "chunk", "done"
    src,             \* the input buffer, a sequence of bytes; srcLen is Len(src)
    dstLenIn,        \* the dstLen the call was made with
    dstLen,          \* dstLen, the room left in dst
    bytesRead,       \* bytesRead, the input cursor
    bytesProcessed,  \* bytesProcessed, the output cursor
    chunkSize,       \* chunkSize of the chunk about to be inflated
    zret             \* the return value: "none", "true", "false"

inflaterVars == <<zpc, src, dstLenIn, dstLen, bytesRead, bytesProcessed, chunkSize, zret>>

vars == <<readerVars, inflaterVars>>

(* ------------------------------- actions ------------------------------- *)
TypeOK == pc \in {"new", "open", "failed"}

InitReader ==
    /\ pc = "new"
    /\ _version = 0
    /\ _map = EmptyMap
    /\ _baseName = <<>>
    /\ _volumeHeaders = <<>>
    /\ _archive = "none"
    /\ trace = NoTrace
    /\ last = NoResult

\* no call of the inflater under way
InflaterIdle ==
    /\ zpc = "idle"
    /\ src = <<>>
    /\ dstLenIn = 0
    /\ dstLen = 0
    /\ bytesRead = 0
    /\ bytesProcessed = 0
    /\ chunkSize = 0
    /\ zret = "none"

Init ==
    /\ \/ HeaderFamily
       \/ TruncatedFamily
       \/ CatalogFamily
       \/ FlagFamily
    /\ InitReader
    /\ InflaterIdle

\* the reader's fields as a record
reader ==
    [version |-> _version, map |-> _map, baseName |-> _baseName,
     volumeHeaders |-> _volumeHeaders, archive |-> _archive]

\* makeInstallShieldArchive: a new reader and open() on it
Open(name, backend, g) ==
    /\ pc = "new"
    /\ LET o == open(fs, name, backend, g)
       IN  /\ pc' = IF o.ret THEN "open" ELSE "failed"
           /\ _version' = o.rd.version
           /\ _map' = o.rd.map
           /\ _baseName' = o.rd.baseName
           /\ _volumeHeaders' = o.rd.volumeHeaders
           /\ _archive' = o.rd.archive
           /\ trace' = o.trace
    /\ UNCHANGED <<fs, last>>
    /\ UNCHANGED inflaterVars

HasFile(path) ==
    /\ pc = "open"
    /\ last' = [NoResult EXCEPT !.op = "hasFile", !.path = path,
                                !.found = hasFile(_map, path)]
    /\ UNCHANGED <<fs, pc, _version, _map, _baseName, _volumeHeaders, _archive, trace>>
    /\ UNCHANGED inflaterVars

ListMembers ==
    /\ pc = "open"
    /\ last' = [NoResult EXCEPT !.op = "listMembers", !.length = listMembers(_map)]
    /\ UNCHANGED <<fs, pc, _version, _map, _baseName, _volumeHeaders, _archive, trace>>
    /\ UNCHANGED inflaterVars

CreateReadStreamForMember(path, decodes) ==
    /\ pc = "open"
    /\ last' = createReadStreamForMember(fs, reader, path, decodes)
    /\ UNCHANGED <<fs, pc, _version, _map, _baseName, _volumeHeaders, _archive, trace>>
    /\ UNCHANGED inflaterVars

Next ==
    \/ \E name \in OpenNames, backend \in Backends, g \in Garbage :
         Open(name, backend, g)
    \/ \E path \in Paths : HasFile(path)
    \/ ListMembers
    \/ \E path \in Paths, decodes \in BOOLEAN : CreateReadStreamForMember(path, decodes)

Spec == Init /\ [][Next]_vars

\* version 5 families of every file range and segment size: each volume's
\* [firstFileIndex, lastFileIndex] and partial segments, the .hdr's own
\* lastFileSizeCompressed, each member's compressedSize
FileRanges == {r \in (0..(MaxFiles - 1)) \X (0..(MaxFiles - 1)) : r[1] <= r[2]}

SplitRanges(first) ==
    { [ffi |-> r[1], lfi |-> r[2], ffsc |-> fs_, lfsc |-> ls]
      : r \in FileRanges, fs_ \in (IF first THEN {0} ELSE 0..MaxSize), ls \in 0..MaxSize }

\* one member of every compressedSize, stored; or a one-byte member and then
\* one of every compressedSize, compressed
SplitTables ==
    { <<[plainRecord("a", 1) EXCEPT !.compressedSize = cs, !.uncompressedSize = cs]>>
      : cs \in 0..MaxSize }
    \cup
    { <<[plainRecord("a", 1) EXCEPT !.flags = kCompressed],
        [plainRecord("b", 1) EXCEPT !.compressedSize = cs, !.flags = kCompressed]>>
      : cs \in 0..MaxSize }

SplitFamily ==
    \E nvol \in 1..MaxVolumes :
      \E first \in SplitRanges(TRUE),
         rest \in [2..nvol -> SplitRanges(FALSE)],
         hdr \in {<<>>} \cup {<<SIGNATURE, Magic5, r>> : r \in
                    {x \in SplitRanges(TRUE) :
                       x.ffi = 0 /\ x.lfi = 0 /\ x.lfsc \in {0, MaxSize}}},
         table \in SplitTables :
        fs = mkFamily(nvol, [i \in 1..nvol |-> SIGNATURE], [i \in 1..nvol |-> Magic5],
                      [i \in 1..nvol |-> IF i = 1 THEN first ELSE rest[i]],
                      hdr, table)

InitSplit == SplitFamily /\ InitReader /\ InflaterIdle

SpecSplit == InitSplit /\ [][Next]_vars

(* ---------------------- inflateZlibInstallShield ----------------------- *)
\* the bytes of a payload: small chunk sizes, and FF for the sync bytes
Bytes == {0, 1, 2, 255}

\* the low half of the sync word 0x0000FFFF
SyncBytes == 65535

Payloads == UNION {[1..n -> Bytes] : n \in 0..MaxSrcLen}

\* the byte at src + k; a read past the buffer yields any byte g
byteAt(buf, k, g) == IF k < Len(buf) THEN buf[k + 1] ELSE g

READ_LE_UINT16(buf, k, g) == byteAt(buf, k, g) + 256 * byteAt(buf, k + 1, g)

\* READ_BE_UINT32(src + k) as its two 16-bit halves, high half first
READ_BE_UINT32(buf, k) ==
    <<buf[k + 1] * 256 + buf[k + 2], buf[k + 3] * 256 + buf[k + 4]>>

\* "See if we have sync bytes": the last four bytes read 0x0000FFFF
hasSyncBytes(buf) ==
    Len(buf) >= 4 /\ READ_BE_UINT32(buf, Len(buf) - 4) = <<0, SyncBytes>>

\* a call inflateZlibInstallShield(dst, dstLen, src, srcLen) of allocated
\* buffers, as createReadStreamForMember makes it
InitInflater ==
    /\ zpc = "entry"
    /\ src \in Payloads
    /\ dstLenIn \in 0..MaxDstLen
    /\ dstLen = dstLenIn
    /\ bytesRead = 0
    /\ bytesProcessed = 0
    /\ chunkSize = 0
    /\ zret = "none"

\* the checks on entry and the sync-bytes path: the whole input goes to
\* inflateZlibHeaderless, which decodes it or not
InflateEnter(ok) ==
    /\ zpc = "entry"
    /\ IF dstLen = 0 \/ Len(src) = 0
       THEN zpc' = "done" /\ zret' = "false"
       ELSE IF hasSyncBytes(src)
       THEN zpc' = "done" /\ zret' = (IF ok THEN "true" ELSE "false")
       ELSE zpc' = "loop" /\ zret' = zret
    /\ UNCHANGED <<src, dstLenIn, dstLen, bytesRead, bytesProcessed, chunkSize>>
    /\ UNCHANGED readerVars

\* the loop test passed: chunkSize = READ_LE_UINT16(src + bytesRead);
\* bytesRead += 2
ReadChunkSize(g) ==
    /\ zpc = "loop"
    /\ dstLen > 0 /\ bytesRead < Len(src)
    /\ chunkSize' = READ_LE_UINT16(src, bytesRead, g)
    /\ bytesRead' = bytesRead + 2
    /\ zpc' = "chunk"
    /\ UNCHANGED <<src, dstLenIn, dstLen, bytesProcessed, zret>>
    /\ UNCHANGED readerVars

\* inflateZlibHeaderless(dst + bytesProcessed, &zlibLen, src + bytesRead,
\* chunkSize) with zlibLen = dstLen: it fails, or reports the zlibLen bytes
\* it produced, at most the room it was given
InflateChunk(ok, zlibLen) ==
    /\ zpc = "chunk"
    /\ zlibLen <= dstLen
    /\ IF ~ok
       THEN /\ zpc' = "done"
            /\ zret' = "false"
            /\ UNCHANGED <<dstLen, bytesRead, bytesProcessed>>
       ELSE /\ bytesProcessed' = bytesProcessed + zlibLen
            /\ dstLen' = dstLen - zlibLen
            /\ bytesRead' = bytesRead + chunkSize
            /\ zpc' = "loop"
            /\ zret' = zret
    /\ UNCHANGED <<src, dstLenIn, chunkSize>>
    /\ UNCHANGED readerVars

\* the loop test failed: return true
InflateReturn ==
    /\ zpc = "loop"
    /\ ~(dstLen > 0 /\ bytesRead < Len(src))
    /\ zpc' = "done"
    /\ zret' = "true"
    /\ UNCHANGED <<src, dstLenIn, dstLen, bytesRead, bytesProcessed, chunkSize>>
    /\ UNCHANGED readerVars

NextInflater ==
    \/ \E ok \in BOOLEAN : InflateEnter(ok)
    \/ \E g \in Bytes : ReadChunkSize(g)
    \/ \E ok \in BOOLEAN, zlibLen \in 0..MaxDstLen : InflateChunk(ok, zlibLen)
    \/ InflateReturn

InitInflate ==
    /\ fs = mkFamily(1, <<SIGNATURE>>, <<Magic6>>, <<ownRange(1)>>, <<>>, TwoFiles)
    /\ InitReader
    /\ InitInflater

SpecInflate == InitInflate /\ [][NextInflater]_vars

\* the loop is never left half-way
FairInflate == SpecInflate /\ WF_vars(NextInflater)

\* the output cursor stays inside dst
InflaterOutputInside == bytesProcessed <= dstLenIn /\ bytesProcessed + dstLen = dstLenIn

\* every call returns
InflaterReturns == <>(zpc = "done")


(* ------------------------------ properties ---------------------------- *)
Closed ==
    /\ _map = EmptyMap
    /\ _volumeHeaders = <<>>
    /\ _version = 0
    /\ _baseName = <<>>

\* C1: whenever a file open() read as a volume (an enumerated volume or the
\* carrier) had a first word other than the signature, open() returned
\* failure and the catalog is empty: no path is a member.
C1_BadSignatureFatal ==
    trace.badSig => (pc = "failed" /\ \A p \in Paths : ~hasFile(_map, p))

\* C2: whenever a header parsed during open(), of an enumerated volume or of
\* the carrier, decoded to a version outside [5,13], open() returned failure:
\* no successful open() has met such a header.
C2_VersionGate ==
    trace.badVersion => pc = "failed"

\* C3: whenever open() returned failure the reader is closed: catalog and
\* volume headers empty, version 0, base name empty; no path is a member and
\* the member list is empty.
C3_OpenAllOrNothing ==
    pc = "failed" =>
      /\ Closed
      /\ \A p \in Paths : ~hasFile(_map, p)
      /\ listMembers(_map) = 0

\* open() failed on a version 5 entry without an owning volume after it had
\* put an entry into the map
C3_Witness ==
    /\ pc = "failed"
    /\ trace.failure = "novolume"
    /\ trace.inserted > 0
    /\ Closed

\* C4: whenever a read during open() ran off the end of its stream, open()
\* returned failure and left the reader closed, and no catalog entry comes
\* from a record read past the end.
C4_ShortReadFatal ==
    /\ trace.short => (pc = "failed" /\ Closed)
    /\ \A i \in DOMAIN trace.seen : ~trace.seen[i].short

\* C5: createReadStreamForMember on an entry of uncompressedSize 0 that is
\* not obfuscated and whose starting volume opened returns a stream of
\* length 0, whatever its Compressed flag and compressedSize and whatever
\* the decoder makes of the payload.  (A split member one of whose later
\* volumes did not open is left aside.)
C5_EmptyMemberStream ==
    ( /\ last.op = "stream"
      /\ last.found
      /\ last.entry.uncompressedSize = 0
      /\ ~hasFlag(last.entry.flags, kObfuscated)
      /\ last.volumeOpened
      /\ ~last.splitFailed )
    => (last.result = "stream" /\ last.length = 0)

\* C6: every catalog entry has a non-zero offset, the Invalid flag clear,
\* comes from a record with a non-zero name offset, and has a non-empty key.
\* (Stated of the cabinets open() read to the end; short reads are C4's.)
C6_CatalogInvariant ==
    ~trace.short =>
    \A k \in DOMAIN _map :
      /\ _map[k].offset # 0
      /\ ~hasFlag(_map[k].flags, kInvalid)
      /\ \E i \in DOMAIN trace.seen :
           /\ trace.seen[i].key = k
           /\ trace.seen[i].entry = _map[k]
           /\ trace.seen[i].nameOffset # 0
      /\ k # ""

\* two paths equal up to the case of their letters
SameIgnoringCase(p, q) ==
    \/ p = q
    \/ {p, q} = {"a", "A"}
    \/ {p, q} = {"b", "B"}

\* the records open() did not skip whose path is p up to case
Carrying(p) == {i \in DOMAIN trace.seen : SameIgnoringCase(trace.seen[i].name, p)}

\* C7: after a successful open() the catalog holds, for every path some
\* non-skipped record carries, exactly one entry under that path compared
\* case-insensitively, and the entry's volume is the least volume of the
\* records carrying the path, wherever in the table they stand.
C7_DuplicateDedup ==
    pc = "open" =>
      /\ \A k1, k2 \in DOMAIN _map : SameIgnoringCase(k1, k2) => k1 = k2
      /\ \A k \in DOMAIN _map : Carrying(k) # {}
      /\ \A i \in DOMAIN trace.seen :
           LET p == trace.seen[i].name
           IN  /\ hasFile(_map, p)
               /\ \A j \in Carrying(p) :
                    _map[lower(p)].volume <= trace.seen[j].entry.volume
               /\ \E j \in Carrying(p) :
                    _map[lower(p)].volume = trace.seen[j].entry.volume

\* a later record, spelt in the other case, replaced an earlier one of a
\* higher volume
C7_Witness ==
    /\ pc = "open"
    /\ \E i, j \in DOMAIN trace.seen :
         /\ i < j
         /\ trace.seen[i].name # trace.seen[j].name
         /\ SameIgnoringCase(trace.seen[i].name, trace.seen[j].name)
         /\ trace.seen[j].entry.volume < trace.seen[i].entry.volume
         /\ _map[trace.seen[j].key] = trace.seen[j].entry

\* C8: for a catalog entry with the Obfuscated flag, hasFile answers true
\* and createReadStreamForMember answers absent without having opened any
\* volume, whatever the entry's other flags and sizes.
C8_ObfuscatedListedNotExtracted ==
    ( /\ last.op \in {"stream", "hasFile"}
      /\ \E k \in DOMAIN _map :
           SameIgnoringCase(k, last.path) /\ hasFlag(_map[k].flags, kObfuscated) )
    => /\ last.found
       /\ last.op = "stream" => (last.result = "absent" /\ last.opens = 0)

\* a split, compressed, obfuscated member whose volume is there was asked for
C8_Witness ==
    /\ last.op = "stream"
    /\ last.found
    /\ hasFlag(last.entry.flags, kObfuscated)
    /\ hasFlag(last.entry.flags, kSplit)
    /\ hasFlag(last.entry.flags, kCompressed)
    /\ last.entry.uncompressedSize > 0
    /\ last.entry.volume \in 1..Len(fs.vols)
    /\ last.result = "absent"

\* the first volume header, in volume order, whose file range holds fileIndex
Owner(fileIndex) ==
    LET holds == {i \in DOMAIN _volumeHeaders :
                    /\ _volumeHeaders[i].firstFileIndex <= fileIndex
                    /\ fileIndex <= _volumeHeaders[i].lastFileIndex}
    IN  CHOOSE i \in holds : \A j \in holds : i <= j

\* C9: a version 5 entry's volume is the index of the first volume header H
\* whose range holds its file index, and it has the Split flag exactly when
\* the file index is H's last, its compressedSize differs from H's
\* lastFileSizeCompressed and that size is not 0.
C9_SplitFromOwningHeader ==
    (pc = "open" /\ _version < 6) =>
      \A i \in DOMAIN trace.seen :
        LET s == trace.seen[i]
            H == _volumeHeaders[Owner(s.fileIndex)]
        IN  /\ s.entry.volume = Owner(s.fileIndex)
            /\ hasFlag(s.entry.flags, kSplit) <=>
                 ( /\ s.fileIndex = H.lastFileIndex
                   /\ s.entry.compressedSize # H.lastFileSizeCompressed
                   /\ H.lastFileSizeCompressed # 0 )

\* C10: when the assembly of a split member ends without a volume failing to
\* open, the bytes read (the starting volume's last segment and each later
\* volume's first segment) are exactly the entry's compressedSize.
C10_SplitFillsBuffer ==
    (last.op = "stream" /\ last.split /\ ~last.splitFailed) =>
      last.bytesRead = last.entry.compressedSize


\* C11: in the chunked path of the inflater (no sync bytes at the end of the
\* input), whenever a chunk is about to be inflated its two size bytes and its
\* chunkSize payload bytes lie inside the input, cursor + 2 + chunkSize <=
\* srcLen (bytesRead already stands behind the size bytes), and the output
\* cursor is never beyond dstLen
C11_InflaterStaysInside ==
    /\ zpc = "chunk" => bytesRead + chunkSize <= Len(src)
    /\ bytesProcessed <= dstLenIn

====
